---- MODULE Spec2Model ----
(***************************************************************************)
(* Retrieval-augmented streaming chat: the stream route handler (the       *)
(* Session Stream Controller, POST /api/chat/[id]/stream) and the          *)
(* useSSEChat hook (the Client Stream Consumer), joined by the SSE wire.   *)
(*                                                                         *)
(* Strings are sequences of one-character tokens, '' is <<>>.  Similarity  *)
(* scores are scaled by 100 (0.75 is 75).  A DocumentSource keeps its id   *)
(* (the ordinal) and its pageContent; name and metadata are copied through *)
(* by the code and are left out.                                           *)
(* The guideline system message is one token; its contextStyle suffix is   *)
(* left out.  A message row keeps id, projectId, role, content, createdAt, *)
(* isDeleted and metadata; createdAt is a logical time.                    *)
(***************************************************************************)
EXTENDS Integers, Sequences, FiniteSets, TLC

\* ------------------------------------------------------------------ bounds
MaxReq == 1        \* requests the route handler serves on its own (Spec)
MaxSends == 2      \* sendMessage calls of one hook that pass its guard (SpecHook)
MaxChunks == 2     \* chunks the model stream delivers per request
MaxStored == 7     \* message rows the project holds before the request (SpecPrompt)
MaxDeleted == 2    \* message rows soft-deleted at one time (SpecPrompt)
MaxEdits == 2      \* PATCH calls on message rows (SpecEdit)

Reqs == 1..MaxReq
Sends == 1..MaxSends
AllReqs == Reqs \cup Sends

\* ------------------------------------------------------- program constants
SIM_THRESHOLD == 75
TopKAsked == 4
TakeRecent == 10      \* take: 10
HistoryLimit == 6     \* slice(0, 6)

BaseSystem == "You are an AI assistant with broad knowledge. [...]"
ContextHeader == "Context:\n"
Separator == "\n---\n"
NoMetadata == "null"
NoHistory == <<>>

DataPrefix == "data: "
NL == "\n"

ErrOpenAIKey == "OpenAI API key not configured"
ErrPinecone == "Pinecone environment variables not configured"
ErrProcessing == "An error occurred while processing your message"

\* ------------------------------------------------------------ input domains
NoUser == "anonymous"
Users == {"u1", "u2"}
Projects == {"A", "B"}
NoMessage == <<"undefined">>
NotJSON == <<"not-json">>
Scores == {60, 91}
Alphabet == <<"a", "b", "c", "d">>

\* prisma project rows: project.userId
Owner(p) == IF p = "A" THEN "u1" ELSE "u2"

\* namespace: `project-${projectId}`
Namespace_shared(projectId) == <<"project-", "A">>

Namespace(projectId) == <<"project-", projectId>>

VARIABLES
  env,            \* process.env: which keys are configured
  index,          \* the Pinecone index: namespace -> passages stored in it
  similarity,     \* the embedding: similarity of each passage to the query
  db,             \* prisma message rows
  stage,          \* per request: where the handler is suspended
  httpStatus,     \* per request: status of the HTTP response, 0 while none
  request,        \* per request: the caller, projectId, message and sessionId of the call
  events,         \* per request: chunks enqueued so far, in order
  wire,           \* per request: encoded tokens enqueued and not yet read
  closed,         \* per request: controller.close() was called
  cancelled,      \* per request: the client went away, the stream is cancelled
  cancelStage,    \* per request: the stage the cancellation landed in
  scored,         \* per request: result of similaritySearchWithScore
  sources,        \* per request: the filtered DocumentSource list
  delivered,      \* per request: delta.content of every chunk the model delivered
  fullResponse,   \* per request: fullResponse
  calls,          \* per request: number of vector, model and createMany calls
  wrote,          \* per request: its createMany inserted its rows
  failure,        \* per request: the collaborator that failed, "none" if none did
  recentMessages, \* per request: recentMessages
  messagesForLLM, \* per request: messagesForLLM as handed to the model, <<>> before
  state,          \* useSSEChat: the ChatState held by useState
  abortControllerRef,  \* useSSEChat: the request whose AbortController the ref holds, 0 for null
  closureLoading, \* state.isLoading as captured by the sendMessage the caller holds
  closureMessages, \* state.messages as captured by the retryLastMessage the caller holds
  cpc,            \* per sendMessage call: where it is suspended
  sent,           \* per sendMessage call: the body it posted
  aborted,        \* per sendMessage call: its AbortController's signal is aborted
  fullAssistantContent,  \* per sendMessage call: fullAssistantContent
  currentSources, \* per sendMessage call: currentSources
  readers,        \* per sendMessage call: number of getReader() calls
  readerReleased, \* per sendMessage call: readerReleased
  releases,       \* per sendMessage call: number of reader.releaseLock() calls
  dispatched,     \* per sendMessage call: the chunks its switch has dispatched
  exit,           \* per sendMessage call: how it left, "none" while it runs
  edit            \* per PATCH call: where it is, its input, the row it read, its status

srvVars == <<env, index, similarity, db, stage, httpStatus, request, events, wire, closed,
             cancelled, cancelStage, scored, sources, delivered, fullResponse,
             calls, wrote, failure, recentMessages, messagesForLLM, edit>>

promptVars == <<recentMessages, messagesForLLM>>

hookVars == <<state, abortControllerRef, closureLoading, closureMessages, cpc, sent, aborted,
              fullAssistantContent, currentSources, readers, readerReleased, releases,
              dispatched, exit>>

vars == <<srvVars, hookVars>>

\* ------------------------------------------------------------------ helpers
RECURSIVE Flatten(_)
Flatten(ss) == IF ss = <<>> THEN <<>> ELSE Head(ss) \o Flatten(Tail(ss))

Types(evs) == [i \in 1..Len(evs) |-> evs[i].type]

IsTerminal(e) == e.type \in {"done", "error"}

CountType(evs, t) == Cardinality({i \in 1..Len(evs) : evs[i].type = t})

TextPayloads(evs) ==
  LET t == SelectSeq(evs, LAMBDA e : e.type = "text")
  IN  [i \in 1..Len(t) |-> t[i].content]

\* ---------------------------------------------------------- the SSE framing
\* JSON.stringify(chunk): '{' type content '}' ; a sources chunk carries the
\* JSON text of the array, one token per source between '[' and ']'.
ContentTokens(chunk) ==
  IF chunk.type = "sources"
  THEN <<"[">> \o [i \in 1..Len(chunk.content) |-> chunk.content[i].pageContent] \o <<"]">>
  ELSE chunk.content

JSONstringify(chunk) == <<"{", chunk.type>> \o ContentTokens(chunk) \o <<"}">>

\* `data: ${JSON.stringify(chunk)}\n\n`
Frame(chunk) == <<DataPrefix>> \o JSONstringify(chunk) \o <<NL, NL>>

\* ------------------------------------------- ReadableStream controller calls
\* A stream value: what the handler holds while a step runs.  threw records a
\* TypeError raised by enqueue/close on a closed or cancelled stream.
StreamOf(r) == [events |-> events[r], wire |-> wire[r], closed |-> closed[r],
                cancelled |-> cancelled[r], threw |-> FALSE]

enqueue(s, chunk) ==
  IF s.threw THEN s
  ELSE IF s.closed \/ s.cancelled THEN [s EXCEPT !.threw = TRUE]
  ELSE [s EXCEPT !.events = Append(@, chunk), !.wire = @ \o Frame(chunk)]

close(s) ==
  IF s.threw THEN s
  ELSE IF s.closed \/ s.cancelled THEN [s EXCEPT !.threw = TRUE]
  ELSE [s EXCEPT !.closed = TRUE]

sendChunk(s, chunk) == enqueue(s, chunk)

\* sendChunk for each chunk of a sequence, in order
RECURSIVE sendChunks(_, _)
sendChunks(s, chunks) ==
  IF chunks = <<>> THEN s ELSE sendChunks(sendChunk(s, Head(chunks)), Tail(chunks))

sendError(s, error) == close(sendChunk(s, [type |-> "error", content |-> <<error>>]))

sendDone_noClose(s) == sendChunk(s, [type |-> "done", content |-> <<>>])

sendDone(s) == close(sendChunk(s, [type |-> "done", content |-> <<>>]))

\* catch (error) { sendError('An error occurred ...') } around the whole of start()
catchStart(s) ==
  IF s.threw THEN sendError([s EXCEPT !.threw = FALSE], ErrProcessing) ELSE s

throw(s) == [s EXCEPT !.threw = TRUE]

\* where start() is after a step that leaves the stream as s
StageAfter(s, next) ==
  IF s.threw THEN "aborted" ELSE IF s.closed THEN "closed" ELSE next

Commit(r, s, next) ==
  /\ events' = [events EXCEPT ![r] = s.events]
  /\ wire' = [wire EXCEPT ![r] = s.wire]
  /\ closed' = [closed EXCEPT ![r] = s.closed]
  /\ stage' = [stage EXCEPT ![r] = StageAfter(s, next)]

\* ------------------------------------------------------------- retrieval, filter
\* scored.filter(([, score]) => score >= SIM_THRESHOLD)
filter_above(sc) == SelectSeq(sc, LAMBDA c : c.score > SIM_THRESHOLD)

filter(sc) == SelectSeq(sc, LAMBDA c : c.score >= SIM_THRESHOLD)

\* the chunks sent once the sources are known: sendChunk({ type: 'sources', ... })
sourcesChunks_ifAny(srcs) ==
  IF srcs = <<>> THEN <<>> ELSE <<[type |-> "sources", content |-> srcs]>>

sourcesChunks(srcs) == <<[type |-> "sources", content |-> srcs]>>

\* filtered.map(([doc], idx) => ({ id: `src-${idx}`, pageContent: doc.pageContent }))
toSources(filtered) ==
  [i \in 1..Len(filtered) |-> [id |-> i - 1, pageContent |-> filtered[i].doc]]

\* similaritySearchWithScore(message, k) on one namespace: the k passages of the
\* namespace most similar to the query, by descending score
RECURSIVE TopK(_, _)
TopK(S, k) ==
  IF S = {} \/ k = 0 THEN <<>>
  ELSE LET d == CHOOSE d \in S : \A e \in S : similarity[d] >= similarity[e]
       IN  <<[doc |-> d, score |-> similarity[d]]>> \o TopK(S \ {d}, k - 1)

similaritySearchWithScore(ns, k) == TopK(index[ns], k)

\* ------------------------------------------------------- history and prompt
\* messages: { orderBy: { createdAt: 'desc' }, take: k } over the rows in S:
\* every order the database may return them in (rows of one createdAt in any order)
RECURSIVE orderByDesc(_, _)
orderByDesc(S, k) ==
  IF S = {} \/ k = 0 THEN {<<>>}
  ELSE UNION {{<<m>> \o t : t \in orderByDesc(S \ {m}, k - 1)} :
                m \in {m \in S : \A e \in S : m.createdAt >= e.createdAt}}

\* project.messages of prisma.project.findFirst({ include: { messages } })
projectMessages(projectId) ==
  orderByDesc({row \in db : row.projectId = projectId}, TakeRecent)

\* seq.slice(0, n)
slice(seq, n) == SubSeq(seq, 1, IF n < Len(seq) THEN n ELSE Len(seq))

\* seq.reverse()
reverse_none(seq) == seq

reverse(seq) == [i \in 1..Len(seq) |-> seq[Len(seq) + 1 - i]]

\* sources.map((s, i) => `[${i + 1}] ${s.pageContent}`).join('\n---\n')
contextText(srcs) ==
  Flatten([i \in 1..Len(srcs) |->
             (IF i > 1 THEN <<Separator>> ELSE <<>>)
               \o <<"[", ToString(i), "] ", srcs[i].pageContent>>])

\* messagesForLLM: baseSystem, the context if there are sources, the history,
\* the current user question
compose_contextAlways(srcs, recent, message) ==
  <<[role |-> "system", content |-> <<BaseSystem>>]>>
    \o <<[role |-> "system", content |-> <<ContextHeader>> \o contextText(srcs)]>>
    \o [i \in 1..Len(recent) |-> [role |-> recent[i].role, content |-> recent[i].content]]
    \o <<[role |-> "user", content |-> message]>>

compose_questionFirst(srcs, recent, message) ==
  <<[role |-> "system", content |-> <<BaseSystem>>]>>
    \o (IF Len(srcs) > 0
        THEN <<[role |-> "system", content |-> <<ContextHeader>> \o contextText(srcs)]>>
        ELSE <<>>)
    \o <<[role |-> "user", content |-> message]>>
    \o [i \in 1..Len(recent) |-> [role |-> recent[i].role, content |-> recent[i].content]]

compose(srcs, recent, message) ==
  <<[role |-> "system", content |-> <<BaseSystem>>]>>
    \o (IF Len(srcs) > 0
        THEN <<[role |-> "system", content |-> <<ContextHeader>> \o contextText(srcs)]>>
        ELSE <<>>)
    \o [i \in 1..Len(recent) |-> [role |-> recent[i].role, content |-> recent[i].content]]
    \o <<[role |-> "user", content |-> message]>>

\* createdAt DEFAULT CURRENT_TIMESTAMP: later than every row there is
CURRENT_TIMESTAMP ==
  IF db = {} THEN 1
  ELSE 1 + CHOOSE t \in {row.createdAt : row \in db} :
               \A row \in db : row.createdAt <= t

\* chunk.choices[0]?.delta?.content of the next chunk of the model stream:
\* empty or absent (<<>>), or a piece of text
ChunkContents(r) == {<<>>, <<Alphabet[Len(delivered[r]) + 1]>>}

\* -------------------------------------------------------------------- Init
\* the documents of the projects, one passage each, and the project of each
\* PATCH calls, and one that has not been made
Edits == 1..MaxEdits
NotCalled == [pc |-> "idle", id |-> <<>>, content |-> <<>>, currentMessage |-> <<>>,
              status |-> 0]

Documents == {"pA1", "pA2", "pB1"}

DocProject(d) == IF d = "pB1" THEN "B" ELSE "A"

\* the index once the documents in D are vectorized
Indexed(D) ==
  [ns \in {Namespace(p) : p \in Projects} |->
     {d \in D : Namespace(DocProject(d)) = ns}]

\* the state before any call, with the documents in D vectorized, similarities
\* drawn from scores and the message rows in rows
InitFrom(D, scores, rows, initialMessages) ==
  /\ env \in [openai : BOOLEAN, pinecone : BOOLEAN]
  /\ index = Indexed(D)
  /\ similarity \in [Documents -> scores]
  /\ db = rows
  /\ recentMessages = [r \in AllReqs |-> <<>>]
  /\ messagesForLLM = [r \in AllReqs |-> <<>>]
  /\ stage = [r \in AllReqs |-> "idle"]
  /\ httpStatus = [r \in AllReqs |-> 0]
  /\ request = [r \in AllReqs |-> <<>>]
  /\ events = [r \in AllReqs |-> <<>>]
  /\ wire = [r \in AllReqs |-> <<>>]
  /\ closed = [r \in AllReqs |-> FALSE]
  /\ cancelled = [r \in AllReqs |-> FALSE]
  /\ cancelStage = [r \in AllReqs |-> "none"]
  /\ scored = [r \in AllReqs |-> <<>>]
  /\ sources = [r \in AllReqs |-> <<>>]
  /\ delivered = [r \in AllReqs |-> <<>>]
  /\ fullResponse = [r \in AllReqs |-> <<>>]
  /\ calls = [r \in AllReqs |-> [vector |-> 0, model |-> 0, db |-> 0]]
  /\ wrote = [r \in AllReqs |-> FALSE]
  /\ failure = [r \in AllReqs |-> "none"]
  /\ state = [messages |-> initialMessages, isLoading |-> FALSE,
              streamingContent |-> <<>>, sources |-> <<>>, error |-> <<>>]
  /\ abortControllerRef = 0
  /\ closureLoading = FALSE
  /\ closureMessages = initialMessages
  /\ cpc = [r \in AllReqs |-> "idle"]
  /\ sent = [r \in AllReqs |-> <<>>]
  /\ aborted = [r \in AllReqs |-> FALSE]
  /\ fullAssistantContent = [r \in AllReqs |-> <<>>]
  /\ currentSources = [r \in AllReqs |-> <<>>]
  /\ readers = [r \in AllReqs |-> 0]
  /\ readerReleased = [r \in AllReqs |-> FALSE]
  /\ releases = [r \in AllReqs |-> 0]
  /\ dispatched = [r \in AllReqs |-> <<>>]
  /\ exit = [r \in AllReqs |-> "none"]
  /\ edit = [e \in Edits |-> NotCalled]

\* a hook mounted without initialMessages
InitWith(D, scores, rows) == InitFrom(D, scores, rows, <<>>)

Init == InitWith(Documents, Scores, {})

\* --------------------------------------------------- the stream route handler
\* POST: authentication, ownership, body check, then the ReadableStream is
\* built and start() runs up to its first await (the vector store).
POST(r, user, projectId, message, sessionId) ==
  /\ stage[r] = "idle"
  /\ request' = [request EXCEPT ![r] =
       [user |-> user, projectId |-> projectId, message |-> message,
        sessionId |-> sessionId]]
  /\ IF user = NoUser THEN
       /\ httpStatus' = [httpStatus EXCEPT ![r] = 401]
       /\ stage' = [stage EXCEPT ![r] = "rejected"]
       /\ UNCHANGED <<events, wire, closed>>
     ELSE IF Owner(projectId) # user THEN
       /\ httpStatus' = [httpStatus EXCEPT ![r] = 403]
       /\ stage' = [stage EXCEPT ![r] = "rejected"]
       /\ UNCHANGED <<events, wire, closed>>
     ELSE IF message = NotJSON THEN
       \* request.json() throws: the catch of POST answers 500
       /\ httpStatus' = [httpStatus EXCEPT ![r] = 500]
       /\ stage' = [stage EXCEPT ![r] = "rejected"]
       /\ UNCHANGED <<events, wire, closed>>
     ELSE IF message = NoMessage \/ message = <<>> THEN
       /\ httpStatus' = [httpStatus EXCEPT ![r] = 400]
       /\ stage' = [stage EXCEPT ![r] = "rejected"]
       /\ UNCHANGED <<events, wire, closed>>
     ELSE
       /\ httpStatus' = [httpStatus EXCEPT ![r] = 200]
       /\ LET s == IF ~env.openai THEN sendError(StreamOf(r), ErrOpenAIKey)
                   ELSE IF ~env.pinecone THEN sendError(StreamOf(r), ErrPinecone)
                   ELSE StreamOf(r)
          IN  Commit(r, s, "retrieving")
  /\ IF /\ user # NoUser
        /\ Owner(projectId) = user
        /\ message \notin {NotJSON, NoMessage, <<>>}
        /\ env.openai
     THEN \E messages \in projectMessages(projectId) :
            recentMessages' =
              [recentMessages EXCEPT ![r] = reverse(slice(messages, HistoryLimit))]
     ELSE UNCHANGED recentMessages
  /\ UNCHANGED messagesForLLM
  /\ UNCHANGED <<env, index, similarity, db, cancelled, cancelStage, scored, sources, delivered,
                 fullResponse, calls, wrote, failure>>
  /\ UNCHANGED edit
  /\ UNCHANGED hookVars

\* similaritySearchWithScore resolves: filter, sources event, prompt, and the
\* model is called (start() suspends on openai.chat.completions.create)
Retrieve(r) ==
  /\ stage[r] = "retrieving"
  /\ LET result == similaritySearchWithScore(Namespace(request[r].projectId), TopKAsked)
         srcs == toSources(filter(result))
         s == catchStart(sendChunks(StreamOf(r), sourcesChunks(srcs)))
     IN  /\ scored' = [scored EXCEPT ![r] = result]
         /\ sources' = [sources EXCEPT ![r] = srcs]
         /\ Commit(r, s, "invoking")
         /\ calls' = [calls EXCEPT ![r].vector = @ + 1,
                                   ![r].model = IF s.threw THEN @ ELSE @ + 1]
         /\ messagesForLLM' =
              [messagesForLLM EXCEPT ![r] =
                 IF s.threw THEN @
                 ELSE compose(srcs, recentMessages[r], request[r].message)]
  /\ UNCHANGED recentMessages
  /\ UNCHANGED <<env, index, similarity, db, httpStatus, request, cancelled, cancelStage,
                 delivered, fullResponse, wrote, failure>>
  /\ UNCHANGED edit
  /\ UNCHANGED hookVars

\* (variant) a failed search answered as if it had found nothing
RetrieveFail_fallback(r) ==
  /\ stage[r] = "retrieving"
  /\ Commit(r, catchStart(sendChunks(StreamOf(r), sourcesChunks(<<>>))), "invoking")
  /\ calls' = [calls EXCEPT ![r].vector = @ + 1, ![r].model = @ + 1]
  /\ UNCHANGED <<env, index, similarity, db, httpStatus, request, cancelled, cancelStage,
                 scored, sources, delivered, fullResponse, wrote>>
  /\ failure' = [failure EXCEPT ![r] = "retrieval"]
  /\ UNCHANGED promptVars
  /\ UNCHANGED edit
  /\ UNCHANGED hookVars

\* (variant) a failed search attempted again
RetrieveFail_again(r) ==
  /\ stage[r] = "retrieving"
  /\ calls' = [calls EXCEPT ![r].vector = @ + 1]
  /\ UNCHANGED <<env, index, similarity, db, httpStatus, request, events, wire, closed,
                 cancelled, cancelStage, scored, sources, delivered, fullResponse,
                 wrote, stage>>
  /\ failure' = [failure EXCEPT ![r] = "retrieval"]
  /\ UNCHANGED promptVars
  /\ UNCHANGED edit
  /\ UNCHANGED hookVars

\* PineconeStore.fromExistingIndex or similaritySearchWithScore throws
RetrieveFail(r) ==
  /\ stage[r] = "retrieving"
  /\ Commit(r, catchStart(throw(StreamOf(r))), "closed")
  /\ calls' = [calls EXCEPT ![r].vector = @ + 1]
  /\ UNCHANGED <<env, index, similarity, db, httpStatus, request, cancelled, cancelStage,
                 scored, sources, delivered, fullResponse, wrote>>
  /\ failure' = [failure EXCEPT ![r] = "retrieval"]
  /\ UNCHANGED promptVars
  /\ UNCHANGED edit
  /\ UNCHANGED hookVars

\* openai.chat.completions.create resolves with the stream; fullResponse = ''
ModelOpen(r) ==
  /\ stage[r] = "invoking"
  /\ stage' = [stage EXCEPT ![r] = "streaming"]
  /\ fullResponse' = [fullResponse EXCEPT ![r] = <<>>]
  /\ UNCHANGED <<env, index, similarity, db, httpStatus, request, events, wire, closed, cancelled,
                 cancelStage, scored, sources, delivered, calls, wrote, failure>>
  /\ UNCHANGED promptVars
  /\ UNCHANGED edit
  /\ UNCHANGED hookVars

\* (variant) a rejected model call followed by the write
ModelOpenFail_persist(r) ==
  /\ stage[r] = "invoking"
  /\ stage' = [stage EXCEPT ![r] = "persisting"]
  /\ calls' = [calls EXCEPT ![r].db = @ + 1]
  /\ UNCHANGED <<env, index, similarity, db, httpStatus, request, events, wire, closed,
                 cancelled, cancelStage, scored, sources, delivered, fullResponse, wrote>>
  /\ failure' = [failure EXCEPT ![r] = "model"]
  /\ UNCHANGED promptVars
  /\ UNCHANGED edit
  /\ UNCHANGED hookVars

\* openai.chat.completions.create rejects
ModelOpenFail(r) ==
  /\ stage[r] = "invoking"
  /\ Commit(r, catchStart(throw(StreamOf(r))), "closed")
  /\ UNCHANGED <<env, index, similarity, db, httpStatus, request, cancelled, cancelStage,
                 scored, sources, delivered, fullResponse, calls, wrote>>
  /\ failure' = [failure EXCEPT ![r] = "model"]
  /\ UNCHANGED promptVars
  /\ UNCHANGED edit
  /\ UNCHANGED hookVars

\* the text chunks one delivered chunk leads to: if (content) { ... sendChunk }
textChunks(content) ==
  IF content # <<>> THEN <<[type |-> "text", content |-> content]>> ELSE <<>>

\* fullResponse += content
accumulate_assign(full, content) == content

accumulate(full, content) == full \o content

\* one iteration of for await (const chunk of completion)
ModelChunk(r, content) ==
  /\ stage[r] = "streaming"
  /\ Len(delivered[r]) < MaxChunks
  /\ delivered' = [delivered EXCEPT ![r] = Append(@, content)]
  /\ fullResponse' = [fullResponse EXCEPT ![r] = accumulate(@, content)]
  /\ Commit(r, catchStart(sendChunks(StreamOf(r), textChunks(content))), "streaming")
  /\ UNCHANGED <<env, index, similarity, db, httpStatus, request, cancelled, cancelStage,
                 scored, sources, calls, wrote, failure>>
  /\ UNCHANGED promptVars
  /\ UNCHANGED edit
  /\ UNCHANGED hookVars

\* (variant) a failed model stream treated as a finished one
ModelFail_persist(r) ==
  /\ stage[r] = "streaming"
  /\ stage' = [stage EXCEPT ![r] = "persisting"]
  /\ calls' = [calls EXCEPT ![r].db = @ + 1]
  /\ UNCHANGED <<env, index, similarity, db, httpStatus, request, events, wire, closed,
                 cancelled, cancelStage, scored, sources, delivered, fullResponse, wrote>>
  /\ failure' = [failure EXCEPT ![r] = "stream"]
  /\ UNCHANGED promptVars
  /\ UNCHANGED edit
  /\ UNCHANGED hookVars

\* the model stream throws while it is iterated
ModelFail(r) ==
  /\ stage[r] = "streaming"
  /\ Commit(r, catchStart(throw(StreamOf(r))), "closed")
  /\ UNCHANGED <<env, index, similarity, db, httpStatus, request, cancelled, cancelStage,
                 scored, sources, delivered, fullResponse, calls, wrote>>
  /\ failure' = [failure EXCEPT ![r] = "stream"]
  /\ UNCHANGED promptVars
  /\ UNCHANGED edit
  /\ UNCHANGED hookVars

\* the model stream ends: the loop exits and prisma.message.createMany is called
ModelComplete(r) ==
  /\ stage[r] = "streaming"
  /\ stage' = [stage EXCEPT ![r] = "persisting"]
  /\ calls' = [calls EXCEPT ![r].db = @ + 1]
  /\ UNCHANGED <<env, index, similarity, db, httpStatus, request, events, wire, closed, cancelled,
                 cancelStage, scored, sources, delivered, fullResponse, wrote, failure>>
  /\ UNCHANGED promptVars
  /\ UNCHANGED edit
  /\ UNCHANGED hookVars

\* the two rows of createMany
turnPair(r) ==
  { [id |-> <<request[r].sessionId, "-user">>, projectId |-> request[r].projectId,
     content |-> request[r].message, role |-> "user",
     createdAt |-> CURRENT_TIMESTAMP, isDeleted |-> FALSE, metadata |-> NoMetadata,
     editHistory |-> NoHistory],
    [id |-> <<request[r].sessionId, "-assistant">>, projectId |-> request[r].projectId,
     content |-> fullResponse[r], role |-> "assistant",
     createdAt |-> CURRENT_TIMESTAMP, isDeleted |-> FALSE, metadata |-> NoMetadata,
     editHistory |-> NoHistory] }

\* after the createMany try/catch: sendDone()
afterPersist(s) == catchStart(sendDone(s))

\* (variant) a write that replaces the rows that have its ids
PersistOk_upsert(r) ==
  /\ stage[r] = "persisting"
  /\ db' = {row \in db : \A n \in turnPair(r) : row.id # n.id} \cup turnPair(r)
  /\ wrote' = [wrote EXCEPT ![r] = TRUE]
  /\ Commit(r, afterPersist(StreamOf(r)), "closed")
  /\ UNCHANGED <<env, index, similarity, httpStatus, request, cancelled, cancelStage, scored,
                 sources, delivered, fullResponse, calls, failure>>
  /\ UNCHANGED promptVars
  /\ UNCHANGED edit
  /\ UNCHANGED hookVars

\* createMany resolves: both rows are inserted (no row has either id yet)
PersistOk(r) ==
  /\ stage[r] = "persisting"
  /\ \A row \in db : \A n \in turnPair(r) : row.id # n.id
  /\ db' = db \cup turnPair(r)
  /\ wrote' = [wrote EXCEPT ![r] = TRUE]
  /\ Commit(r, afterPersist(StreamOf(r)), "closed")
  /\ UNCHANGED <<env, index, similarity, httpStatus, request, cancelled, cancelStage, scored,
                 sources, delivered, fullResponse, calls, failure>>
  /\ UNCHANGED promptVars
  /\ UNCHANGED edit
  /\ UNCHANGED hookVars

\* the catch (dbError) block: the error is logged and not thrown again
catchDbError_rethrow(s) == s

catchDbError(s) == [s EXCEPT !.threw = FALSE]

\* (variant) a failed createMany that leaves its first row behind
PersistFail_partial(r) ==
  /\ stage[r] = "persisting"
  /\ Commit(r, afterPersist(catchDbError(throw(StreamOf(r)))), "closed")
  /\ db' = db \cup {row \in turnPair(r) : row.role = "user"}
  /\ UNCHANGED <<env, index, similarity, httpStatus, request, cancelled, cancelStage,
                 scored, sources, delivered, fullResponse, calls, wrote>>
  /\ failure' = [failure EXCEPT ![r] = "db"]
  /\ UNCHANGED promptVars
  /\ UNCHANGED edit
  /\ UNCHANGED hookVars

\* createMany rejects (unique id, or the database is unavailable): nothing is inserted
PersistFail(r) ==
  /\ stage[r] = "persisting"
  /\ Commit(r, afterPersist(catchDbError(throw(StreamOf(r)))), "closed")
  /\ UNCHANGED <<env, index, similarity, db, httpStatus, request, cancelled, cancelStage,
                 scored, sources, delivered, fullResponse, calls, wrote>>
  /\ failure' = [failure EXCEPT ![r] = "db"]
  /\ UNCHANGED promptVars
  /\ UNCHANGED edit
  /\ UNCHANGED hookVars

\* the client goes away while the stream is open: the platform cancels the stream
Disconnect(r) ==
  /\ httpStatus[r] = 200
  /\ ~closed[r]
  /\ ~cancelled[r]
  /\ stage[r] # "aborted"
  /\ cancelled' = [cancelled EXCEPT ![r] = TRUE]
  /\ cancelStage' = [cancelStage EXCEPT ![r] = stage[r]]
  /\ UNCHANGED <<env, index, similarity, db, stage, httpStatus, request, events, wire, closed,
                 scored, sources, delivered, fullResponse, calls, wrote, failure>>
  /\ UNCHANGED promptVars
  /\ UNCHANGED edit
  /\ UNCHANGED hookVars

\* --------------------------------------------------- the vectorize route handler
\* POST /api/documents/[id]/vectorize by user for document d: the passages
\* of the document are stored in the namespace of the document's project
vectorize(user, d) ==
  /\ IF user # NoUser /\ Owner(DocProject(d)) = user /\ env.openai /\ env.pinecone
     THEN index' = [index EXCEPT ![Namespace(DocProject(d))] = @ \cup {d}]
     ELSE UNCHANGED index
  /\ UNCHANGED <<env, similarity, db, stage, httpStatus, request, events, wire, closed,
                 cancelled, cancelStage, scored, sources, delivered, fullResponse,
                 calls, wrote, failure>>
  /\ UNCHANGED promptVars
  /\ UNCHANGED edit
  /\ UNCHANGED hookVars

\* ------------------------------------------------------ the message route handlers
\* DELETE /api/messages/[id] without permanent=true: soft deletion
SoftDelete(user, id) ==
  /\ \E row \in db :
       /\ row.id = id
       /\ Owner(row.projectId) = user
       /\ db' = (db \ {row}) \cup {[row EXCEPT !.isDeleted = TRUE]}
  /\ UNCHANGED <<env, index, similarity, stage, httpStatus, request, events, wire, closed,
                 cancelled, cancelStage, scored, sources, delivered, fullResponse,
                 calls, wrote, failure>>
  /\ UNCHANGED promptVars
  /\ UNCHANGED edit
  /\ UNCHANGED hookVars

\* POST /api/messages/[id]/restore
Restore(user, id) ==
  /\ \E row \in db :
       /\ row.id = id
       /\ Owner(row.projectId) = user
       /\ row.isDeleted
       /\ db' = (db \ {row}) \cup {[row EXCEPT !.isDeleted = FALSE]}
  /\ UNCHANGED <<env, index, similarity, stage, httpStatus, request, events, wire, closed,
                 cancelled, cancelStage, scored, sources, delivered, fullResponse,
                 calls, wrote, failure>>
  /\ UNCHANGED promptVars
  /\ UNCHANGED edit
  /\ UNCHANGED hookVars

\* body.role left out
NoRole == "undefined"

\* PATCH /api/messages/[id] up to its await of prisma.message.update: the
\* caller, the row and the role are checked and the new history is built from
\* the row as it was read
PATCH(e, user, id, content, role) ==
  /\ edit[e].pc = "idle"
  /\ LET found == {row \in db : row.id = id /\ Owner(row.projectId) = user}
         answer(status) == [pc |-> "done", id |-> id, content |-> content,
                            currentMessage |-> <<>>, status |-> status]
     IN  edit' = [edit EXCEPT ![e] =
           IF user = NoUser THEN answer(401)
           ELSE IF found = {} THEN answer(404)
           ELSE LET currentMessage == CHOOSE row \in found : TRUE
                IN  IF role # NoRole /\ role # currentMessage.role THEN answer(400)
                    ELSE [pc |-> "updating", id |-> id, content |-> content,
                          currentMessage |-> <<currentMessage>>, status |-> 0]]
  /\ UNCHANGED <<env, index, similarity, db, stage, httpStatus, request, events, wire,
                 closed, cancelled, cancelStage, scored, sources, delivered, fullResponse,
                 calls, wrote, failure>>
  /\ UNCHANGED promptVars
  /\ UNCHANGED hookVars

\* newEditHistory: the history as read, then the content as read
newEditHistory(currentMessage) ==
  Append(currentMessage.editHistory, [content |-> currentMessage.content])

\* prisma.message.update({ where: { id }, data: { content, editHistory } })
\* resolves: the row that now has the id gets the content and the history
update(e) ==
  /\ edit[e].pc = "updating"
  /\ \E row \in db :
       /\ row.id = edit[e].id
       /\ db' = (db \ {row}) \cup
                  {[row EXCEPT !.content = edit[e].content,
                               !.editHistory = newEditHistory(edit[e].currentMessage[1])]}
  /\ edit' = [edit EXCEPT ![e].pc = "done", ![e].status = 200]
  /\ UNCHANGED <<env, index, similarity, stage, httpStatus, request, events, wire, closed,
                 cancelled, cancelStage, scored, sources, delivered, fullResponse,
                 calls, wrote, failure>>
  /\ UNCHANGED promptVars
  /\ UNCHANGED hookVars

\* ------------------------------------------------------------ specification
Messages == {NoMessage, <<>>, <<"q">>}
SessionIds == {"s1", "s2"}

\* The controller and its environment: HTTP callers, the vector store, the
\* model, the database and the transport.  The code never looks into a passage
\* or a chunk beyond its score and its being empty, so every delivered chunk
\* is either empty or a token of its own.
Next ==
  \E r \in Reqs :
    \/ \E u \in {"u1", NoUser}, p \in Projects, m \in Messages, sid \in SessionIds :
         POST(r, u, p, m, sid)
    \/ Retrieve(r)
    \/ RetrieveFail(r)
    \/ ModelOpen(r)
    \/ ModelOpenFail(r)
    \/ \E c \in ChunkContents(r) : ModelChunk(r, c)
    \/ ModelFail(r)
    \/ ModelComplete(r)
    \/ PersistOk(r)
    \/ PersistFail(r)
    \/ Disconnect(r)

Spec == Init /\ [][Next]_vars

\* ------------------------------------------------------------ the useSSEChat hook
NoError == <<>>

\* options.images left out
NoImages == <<>>

\* new Date(): later than the createdAt of every message in the list
Date(messages) ==
  LET T == {messages[i].createdAt : i \in 1..Len(messages)}
  IN  IF T = {} THEN 1 ELSE 1 + CHOOSE t \in T : \A u \in T : u <= t

\* content.trim()
RECURSIVE TrimLeft(_)
TrimLeft(c) == IF c # <<>> /\ Head(c) = " " THEN TrimLeft(Tail(c)) ELSE c

RECURSIVE TrimRight(_)
TrimRight(c) ==
  IF c # <<>> /\ c[Len(c)] = " " THEN TrimRight(SubSeq(c, 1, Len(c) - 1)) ELSE c

trim(c) == TrimRight(TrimLeft(c))

\* generateSessionId(): a fresh identifier per call
generateSessionId(r) == <<"s1", "s2", "s3", "s4">>[r]

\* chunk.split('\n')
RECURSIVE split(_)
split(tokens) ==
  IF \A i \in 1..Len(tokens) : tokens[i] # NL THEN <<tokens>>
  ELSE LET i == CHOOSE i \in 1..Len(tokens) :
                  tokens[i] = NL /\ \A j \in 1..(i - 1) : tokens[j] # NL
       IN  <<SubSeq(tokens, 1, i - 1)>> \o split(SubSeq(tokens, i + 1, Len(tokens)))

\* JSON.parse(jsonStr) of a StreamChunk: ok is FALSE where it throws
JSONparse(jsonStr) ==
  IF /\ Len(jsonStr) >= 2
     /\ jsonStr[1] = "{"
     /\ jsonStr[Len(jsonStr)] = "}"
     /\ \A i \in 2..(Len(jsonStr) - 1) : jsonStr[i] \notin {"{", "}", DataPrefix}
  THEN [ok |-> TRUE,
        type |-> IF Len(jsonStr) >= 3 THEN jsonStr[2] ELSE "undefined",
        content |-> SubSeq(jsonStr, 3, Len(jsonStr) - 1)]
  ELSE [ok |-> FALSE, type |-> "undefined", content |-> <<>>]

\* JSON.parse(data.content) of a sources chunk
JSONparseSources(content) ==
  IF Len(content) >= 2 /\ content[1] = "[" /\ content[Len(content)] = "]"
  THEN [ok |-> TRUE,
        value |-> [i \in 1..(Len(content) - 2) |->
                     [id |-> i - 1, pageContent |-> content[i + 1]]]]
  ELSE [ok |-> FALSE, value |-> <<>>]

\* What one sendMessage call holds while it handles a read: its locals, the
\* ChatState as its setState calls leave it, and how it left (ret).
LocalOf(r) ==
  [full |-> fullAssistantContent[r], srcs |-> currentSources[r],
   released |-> readerReleased[r], releases |-> releases[r],
   st |-> state, seen |-> dispatched[r], ret |-> "none", req |-> r]

\* if (!readerReleased) { reader.releaseLock(); readerReleased = true; }
releaseOnce_noFlag(L) ==
  IF L.released THEN L ELSE [L EXCEPT !.releases = @ + 1]

releaseOnce(L) ==
  IF L.released THEN L ELSE [L EXCEPT !.releases = @ + 1, !.released = TRUE]

\* the inner finally: if (!readerReleased) reader.releaseLock()
finallyRelease(L) ==
  IF L.released THEN L ELSE [L EXCEPT !.releases = @ + 1]

\* case 'sources'
onSources(L, data) ==
  LET parsed == JSONparseSources(data.content)
  IN  IF ~parsed.ok THEN L
      ELSE [L EXCEPT !.srcs = parsed.value, !.st.sources = parsed.value,
                     !.seen = Append(@, data)]

\* case 'text'
onText(L, data) ==
  LET full == L.full \o data.content
  IN  [L EXCEPT !.full = full, !.st.streamingContent = full, !.seen = Append(@, data)]

\* case 'done'
onDone_keepSources(L, data) ==
  LET assistantMessage == [role |-> "assistant", content |-> L.full,
                           sources |-> L.srcs, images |-> NoImages,
                           createdAt |-> Date(L.st.messages), req |-> L.req]
  IN  releaseOnce([L EXCEPT !.st.messages = Append(@, assistantMessage),
                            !.st.isLoading = FALSE,
                            !.st.streamingContent = <<>>,
                            !.seen = Append(@, data),
                            !.ret = "done"])

onDone(L, data) ==
  LET assistantMessage == [role |-> "assistant", content |-> L.full,
                           sources |-> L.srcs, images |-> NoImages,
                           createdAt |-> Date(L.st.messages), req |-> L.req]
  IN  releaseOnce([L EXCEPT !.st.messages = Append(@, assistantMessage),
                            !.st.isLoading = FALSE,
                            !.st.streamingContent = <<>>,
                            !.st.sources = <<>>,
                            !.seen = Append(@, data),
                            !.ret = "done"])

\* case 'error'
onError_keepLoading(L, data) ==
  releaseOnce([L EXCEPT !.st.error = data.content,
                        !.st.streamingContent = <<>>,
                        !.seen = Append(@, data),
                        !.ret = "error"])

onError(L, data) ==
  releaseOnce([L EXCEPT !.st.error = data.content,
                        !.st.isLoading = FALSE,
                        !.st.streamingContent = <<>>,
                        !.seen = Append(@, data),
                        !.ret = "error"])

\* the body of for (const line of lines)
onLine(L, line) ==
  IF L.ret # "none" THEN L
  ELSE IF line = <<>> \/ Head(line) # DataPrefix THEN L
  ELSE LET jsonStr == Tail(line)
           parsed == JSONparse(jsonStr)
           data == [type |-> parsed.type, content |-> parsed.content]
       IN  IF jsonStr = <<>> \/ ~parsed.ok THEN L
           ELSE IF data.type = "sources" THEN onSources(L, data)
           ELSE IF data.type = "text" THEN onText(L, data)
           ELSE IF data.type = "image" THEN [L EXCEPT !.seen = Append(@, data)]
           ELSE IF data.type = "done" THEN onDone(L, data)
           ELSE IF data.type = "error" THEN onError(L, data)
           ELSE L

RECURSIVE onLines(_, _)
onLines(L, lines) ==
  IF lines = <<>> THEN L ELSE onLines(onLine(L, Head(lines)), Tail(lines))

\* the locals and the ChatState after a step of call r
StoreLocal(r, L) ==
  /\ fullAssistantContent' = [fullAssistantContent EXCEPT ![r] = L.full]
  /\ currentSources' = [currentSources EXCEPT ![r] = L.srcs]
  /\ readerReleased' = [readerReleased EXCEPT ![r] = L.released]
  /\ releases' = [releases EXCEPT ![r] = L.releases]
  /\ dispatched' = [dispatched EXCEPT ![r] = L.seen]
  /\ state' = L.st

\* the outer finally: abortControllerRef.current = null
Return(r, how) ==
  /\ cpc' = [cpc EXCEPT ![r] = "returned"]
  /\ exit' = [exit EXCEPT ![r] = how]
  /\ abortControllerRef' = 0

srvButWire == <<env, index, similarity, db, stage, httpStatus, request, events, closed,
                cancelled, cancelStage, scored, sources, delivered, fullResponse,
                calls, wrote, failure, recentMessages, messagesForLLM, edit>>

\* sendMessage(content, options) up to its first await (fetch), as call number
\* r, on the ChatState st that the setState calls queued before it leave
send(st, r, content, images) ==
  IF trim(content) = <<>> \/ closureLoading
  THEN /\ state' = st
       /\ UNCHANGED <<abortControllerRef, sent, cpc>>
  ELSE /\ state' = [st EXCEPT
              !.messages = Append(@, [role |-> "user", content |-> trim(content),
                                      sources |-> <<>>, images |-> images,
                                      createdAt |-> Date(st.messages), req |-> r]),
              !.isLoading = TRUE,
              !.streamingContent = <<>>,
              !.sources = <<>>,
              !.error = NoError]
       /\ abortControllerRef' = r
       /\ sent' = [sent EXCEPT ![r] = [message |-> trim(content),
                                       sessionId |-> generateSessionId(r),
                                       images |-> images]]
       /\ cpc' = [cpc EXCEPT ![r] = "fetching"]

\* the caller calls sendMessage: call number r
sendMessage(r, content, images) ==
  /\ cpc[r] = "idle"
  /\ \A q \in Sends : q < r => cpc[q] # "idle"
  /\ send(state, r, content, images)
  /\ UNCHANGED <<closureLoading, closureMessages, aborted, fullAssistantContent,
                 currentSources, readers, readerReleased, releases, dispatched, exit>>
  /\ UNCHANGED srvVars

\* the last user message of a list, found by .slice().reverse().find()
lastUser(messages) ==
  LET U == {i \in 1..Len(messages) : messages[i].role = "user"}
  IN  IF U = {} THEN <<>> ELSE <<messages[CHOOSE i \in U : \A j \in U : j <= i]>>

\* prev.messages.filter(...) of retryLastMessage
withoutLaterAssistant_none(messages, lastUserMessage) == messages

withoutLaterAssistant(messages, lastUserMessage) ==
  SelectSeq(messages, LAMBDA msg :
    ~(msg.role = "assistant" /\ msg.createdAt > lastUserMessage.createdAt))

\* retryLastMessage(): its sendMessage is call number r
retryLastMessage(r) ==
  /\ cpc[r] = "idle"
  /\ \A q \in Sends : q < r => cpc[q] # "idle"
  /\ LET found == lastUser(closureMessages)
     IN  IF found = <<>>
         THEN UNCHANGED <<state, abortControllerRef, sent, cpc>>
         ELSE LET lastUserMessage == found[1]
                  st == [state EXCEPT
                           !.messages = withoutLaterAssistant(@, lastUserMessage),
                           !.error = NoError]
              IN  send(st, r, lastUserMessage.content, lastUserMessage.images)
  /\ UNCHANGED <<closureLoading, closureMessages, aborted, fullAssistantContent,
                 currentSources, readers, readerReleased, releases, dispatched, exit>>
  /\ UNCHANGED srvVars

\* clearMessages()
clearMessages ==
  /\ state' = [state EXCEPT !.messages = <<>>, !.streamingContent = <<>>,
                            !.sources = <<>>, !.error = NoError]
  /\ UNCHANGED <<abortControllerRef, closureLoading, closureMessages, cpc, sent,
                 aborted, fullAssistantContent, currentSources, readers,
                 readerReleased, releases, dispatched, exit>>
  /\ UNCHANGED srvVars

\* React renders again: the caller now holds callbacks that see the state
Rerender ==
  /\ closureLoading # state.isLoading \/ closureMessages # state.messages
  /\ closureLoading' = state.isLoading
  /\ closureMessages' = state.messages
  /\ UNCHANGED <<state, abortControllerRef, cpc, sent, aborted, fullAssistantContent,
                 currentSources, readers, readerReleased, releases, dispatched, exit>>
  /\ UNCHANGED srvVars

\* stopStreaming()
stopStreaming ==
  /\ IF abortControllerRef # 0
     THEN /\ aborted' = [aborted EXCEPT ![abortControllerRef] = TRUE]
          /\ abortControllerRef' = 0
     ELSE UNCHANGED <<aborted, abortControllerRef>>
  /\ state' = [state EXCEPT !.isLoading = FALSE, !.streamingContent = <<>>,
                            !.error = NoError]
  /\ UNCHANGED <<closureLoading, closureMessages, cpc, sent, fullAssistantContent, currentSources,
                 readers, readerReleased, releases, dispatched, exit>>
  /\ UNCHANGED srvVars

\* the message of the Error thrown for a response that is not ok
HttpErrorMessage(status) ==
  <<"HTTP error! status: ", IF status = 401 THEN "401"
                            ELSE IF status = 403 THEN "403" ELSE "400">>

\* the outer catch, for an error that is no AbortError
catchError(st, message) ==
  [st EXCEPT !.error = message, !.isLoading = FALSE, !.streamingContent = <<>>]

\* the outer catch, for an AbortError
catchAbort_asError(st) == catchError(st, <<"AbortError">>)

catchAbort(st) == [st EXCEPT !.isLoading = FALSE, !.streamingContent = <<>>]

\* fetch resolves: the response is checked and the reader taken
FetchResponse(r) ==
  /\ cpc[r] = "fetching"
  /\ ~aborted[r]
  /\ httpStatus[r] # 0
  /\ IF httpStatus[r] # 200
     THEN /\ state' = catchError(state, HttpErrorMessage(httpStatus[r]))
          /\ Return(r, "http")
          /\ UNCHANGED <<readers, readerReleased>>
     ELSE /\ cpc' = [cpc EXCEPT ![r] = "reading"]
          /\ readers' = [readers EXCEPT ![r] = @ + 1]
          /\ readerReleased' = [readerReleased EXCEPT ![r] = FALSE]
          /\ UNCHANGED <<state, exit, abortControllerRef>>
  /\ UNCHANGED <<closureLoading, closureMessages, sent, aborted, fullAssistantContent, currentSources,
                 releases, dispatched>>
  /\ UNCHANGED srvVars

\* fetch or reader.read() rejects with a network error
NetworkError(r) ==
  /\ cpc[r] \in {"fetching", "reading"}
  /\ ~aborted[r]
  /\ LET L == IF cpc[r] = "reading" THEN finallyRelease(LocalOf(r)) ELSE LocalOf(r)
     IN  StoreLocal(r, [L EXCEPT !.st = catchError(@, <<"Failed to fetch">>)])
  /\ Return(r, "network")
  /\ UNCHANGED <<closureLoading, closureMessages, sent, aborted, readers>>
  /\ UNCHANGED srvVars

\* reader.read() resolves with the next k tokens of the stream
Read(r, k) ==
  /\ cpc[r] = "reading"
  /\ ~aborted[r]
  /\ k \in 1..Len(wire[r])
  /\ wire' = [wire EXCEPT ![r] = SubSeq(@, k + 1, Len(@))]
  /\ LET body == onLines(LocalOf(r), split(SubSeq(wire[r], 1, k)))
         L == IF body.ret = "none" THEN body ELSE finallyRelease(body)
     IN  /\ StoreLocal(r, L)
         /\ IF L.ret = "none"
            THEN UNCHANGED <<cpc, exit, abortControllerRef>>
            ELSE Return(r, L.ret)
  /\ UNCHANGED <<closureLoading, closureMessages, sent, aborted, readers>>
  /\ UNCHANGED srvButWire

\* reader.read() resolves with done: the stream is closed and read to its end
ReadEnd(r) ==
  /\ cpc[r] = "reading"
  /\ ~aborted[r]
  /\ closed[r]
  /\ wire[r] = <<>>
  /\ StoreLocal(r, finallyRelease(LocalOf(r)))
  /\ Return(r, "exhausted")
  /\ UNCHANGED <<closureLoading, closureMessages, sent, aborted, readers>>
  /\ UNCHANGED srvVars

\* the pending fetch or read rejects with the AbortError
AbortCatch(r) ==
  /\ cpc[r] \in {"fetching", "reading"}
  /\ aborted[r]
  /\ LET L == IF cpc[r] = "reading" THEN finallyRelease(LocalOf(r)) ELSE LocalOf(r)
     IN  StoreLocal(r, [L EXCEPT !.st = catchAbort(@)])
  /\ Return(r, "abort")
  /\ UNCHANGED <<closureLoading, closureMessages, sent, aborted, readers>>
  /\ UNCHANGED srvVars

\* the fetch of call r reaches the route handler
Arrive(r, user, projectId) ==
  /\ cpc[r] # "idle"
  /\ POST(r, user, projectId, sent[r].message, sent[r].sessionId)

\* the abort of call r closes its connection
AbortDisconnect(r) ==
  /\ aborted[r]
  /\ Disconnect(r)

HookContents == {<<"q">>, <<" ">>}

\* The hook specifications start with the keys configured and with one passage
\* of project A above the threshold.
InitHook ==
  /\ Init
  /\ env = [openai |-> TRUE, pinecone |-> TRUE]
  /\ similarity["pA1"] = 91
  /\ similarity["pA2"] = 60
  /\ similarity["pB1"] = 60

\* One hook and the route handler behind it, for the calls of Sends.  Every
\* read returns all that is enqueued; the handler's collaborators fail only in
\* retrieval and in the middle of the model stream, and every chunk has text.
NextHook ==
  \/ \E r \in Sends, c \in HookContents : sendMessage(r, c, NoImages)
  \/ stopStreaming
  \/ Rerender
  \/ \E r \in Sends :
       \/ \E u \in {"u1", NoUser} : Arrive(r, u, "A")
       \/ FetchResponse(r)
       \/ NetworkError(r)
       \/ Read(r, Len(wire[r]))
       \/ AbortCatch(r)
       \/ AbortDisconnect(r)
       \/ Retrieve(r)
       \/ RetrieveFail(r)
       \/ ModelOpen(r)
       \/ \E c \in ChunkContents(r) \ {<<>>} : ModelChunk(r, c)
       \/ ModelFail(r)
       \/ ModelComplete(r)
       \/ PersistOk(r)

SpecHook == InitHook /\ [][NextHook]_vars

\* One sendMessage call from end to end: the hook, the route handler with all
\* its collaborators' outcomes, and a transport that cuts the stream into
\* reads at any token.
NextWire ==
  \/ \E c \in HookContents : sendMessage(1, c, NoImages)
  \/ stopStreaming
  \/ clearMessages
  \/ Rerender
  \/ \E r \in {1} :
       \/ \E u \in {"u1", NoUser} : Arrive(r, u, "A")
       \/ FetchResponse(r)
       \/ NetworkError(r)
       \/ \E k \in 1..Len(wire[r]) : Read(r, k)
       \/ ReadEnd(r)
       \/ AbortCatch(r)
       \/ AbortDisconnect(r)
       \/ Retrieve(r)
       \/ RetrieveFail(r)
       \/ ModelOpen(r)
       \/ ModelOpenFail(r)
       \/ \E c \in ChunkContents(r) : ModelChunk(r, c)
       \/ ModelFail(r)
       \/ ModelComplete(r)
       \/ PersistOk(r)
       \/ PersistFail(r)

SpecWire == InitHook /\ [][NextWire]_vars

\* Retry: a hook mounted with or without an earlier exchange, two calls that
\* are sendMessage or retryLastMessage calls, and a route handler whose
\* retrieval, model call and write succeed or fail.
PriorTurns ==
  << [role |-> "user", content |-> <<"p">>, sources |-> <<>>, images |-> <<"i0">>,
      createdAt |-> 1, req |-> 0],
     [role |-> "assistant", content |-> <<"a">>, sources |-> <<>>, images |-> NoImages,
      createdAt |-> 2, req |-> 0] >>

InitRetry ==
  /\ \E initialMessages \in {<<>>, PriorTurns} :
       InitFrom(Documents, Scores, {}, initialMessages)
  /\ env = [openai |-> TRUE, pinecone |-> TRUE]
  /\ similarity["pA1"] = 91
  /\ similarity["pA2"] = 60
  /\ similarity["pB1"] = 60

NextRetry ==
  \/ \E r \in {1, 2}, c \in HookContents : sendMessage(r, c, <<"i1">>)
  \/ \E r \in {1, 2} : retryLastMessage(r)
  \/ Rerender
  \/ \E r \in {1, 2} :
       \/ Arrive(r, "u1", "A")
       \/ FetchResponse(r)
       \/ Read(r, Len(wire[r]))
       \/ Retrieve(r)
       \/ RetrieveFail(r)
       \/ ModelOpen(r)
       \/ ModelOpenFail(r)
       \/ \E c \in ChunkContents(r) \ {<<>>} : ModelChunk(r, c)
       \/ ModelFail(r)
       \/ ModelComplete(r)
       \/ PersistOk(r)
       \/ PersistFail(r)

SpecRetry == InitRetry /\ [][NextRetry]_vars

\* Session identifiers: two requests, one after the other or at the same
\* time, of one project or of two, that carry the same or different
\* identifiers.
NextSession ==
  \E r \in {1, 2} :
    \/ \E p \in Projects, sid \in SessionIds : POST(r, Owner(p), p, <<"q">>, sid)
    \/ Retrieve(r)
    \/ ModelOpen(r)
    \/ \E c \in ChunkContents(r) \ {<<>>} : ModelChunk(r, c)
    \/ ModelComplete(r)
    \/ PersistOk(r)
    \/ PersistFail(r)

SpecSession == InitHook /\ [][NextSession]_vars

\* Validation: every caller, project and body, and the first step behind an
\* accepted call.
Bodies == Messages \cup {NotJSON, <<" ">>}

NextValidate ==
  \E r \in Reqs :
    \/ \E u \in Users \cup {NoUser}, p \in Projects, m \in Bodies, sid \in SessionIds :
         POST(r, u, p, m, sid)
    \/ Retrieve(r)
    \/ RetrieveFail(r)

SpecValidate == Init /\ [][NextValidate]_vars

\* Ingestion and retrieval: the owners vectorize their documents, each once,
\* and post questions; the similarities include the threshold itself.
InitRetrieval ==
  /\ InitWith({}, Scores \cup {SIM_THRESHOLD}, {})
  /\ env = [openai |-> TRUE, pinecone |-> TRUE]

NextRetrieval ==
  \/ \E u \in Users, d \in Documents :
       /\ \A ns \in DOMAIN index : d \notin index[ns]
       /\ vectorize(u, d)
  \/ \E r \in Reqs :
       \/ \E u \in Users, p \in Projects : POST(r, u, p, <<"q">>, "s1")
       \/ Retrieve(r)
       \/ ModelOpen(r)
       \/ \E c \in ChunkContents(r) \ {<<>>} : ModelChunk(r, c)
       \/ ModelComplete(r)
       \/ PersistOk(r)

SpecRetrieval == InitRetrieval /\ [][NextRetrieval]_vars

\* the rows earlier exchanges left: exchange j wrote its user row and its
\* assistant row with one createdAt; the first exchange used sessionId s1
StoredSession(j) == IF j = 1 THEN "s1" ELSE ToString(j)

StoredTurn(k) ==
  [id |-> <<StoredSession((k + 1) \div 2), IF k % 2 = 1 THEN "-user" ELSE "-assistant">>,
   projectId |-> "A",
   content |-> <<ToString(k)>>,
   role |-> IF k % 2 = 1 THEN "user" ELSE "assistant",
   createdAt |-> (k + 1) \div 2,
   isDeleted |-> FALSE,
   metadata |-> NoMetadata,
   editHistory |-> NoHistory]

\* the latest row of all belongs to project B
OtherProjectTurn ==
  [id |-> <<"b1", "-user">>, projectId |-> "B", content |-> <<"b">>, role |-> "user",
   createdAt |-> MaxStored + 1, isDeleted |-> FALSE, metadata |-> NoMetadata,
   editHistory |-> NoHistory]

StoredTurns(n) == {StoredTurn(k) : k \in 1..n} \cup {OtherProjectTurn}

\* One request of the owner on project A, which holds up to MaxStored message
\* rows; before the request the owner deletes and restores messages.
InitPrompt ==
  /\ \E n \in 0..MaxStored : InitWith(Documents, Scores, StoredTurns(n))
  /\ env = [openai |-> TRUE, pinecone |-> TRUE]
  /\ similarity["pB1"] = 60

NextPrompt ==
  \/ \E row \in db :
       /\ stage[1] = "idle"
       /\ Cardinality({d \in db : d.isDeleted}) < MaxDeleted
       /\ ~row.isDeleted
       /\ SoftDelete("u1", row.id)
  \/ \E row \in db : stage[1] = "idle" /\ Restore("u1", row.id)
  \/ \E r \in {1} :
       \/ \E sid \in SessionIds : POST(r, "u1", "A", <<"q">>, sid)
       \/ Retrieve(r)
       \/ ModelOpen(r)
       \/ \E c \in ChunkContents(r) \ {<<>>} : ModelChunk(r, c)
       \/ ModelComplete(r)
       \/ PersistOk(r)
       \/ PersistFail(r)

SpecPrompt == InitPrompt /\ [][NextPrompt]_vars

\* Edits: PATCH calls of both users and of no user on a stored row of project
\* A, on one of project B and on no row, with and without a role, one after
\* the other or overlapping.
EditContents == {<<"x">>, <<"y">>}

InitEdit ==
  /\ InitWith(Documents, Scores, StoredTurns(1))
  /\ env = [openai |-> TRUE, pinecone |-> TRUE]
  /\ similarity = [d \in Documents |-> 60]

NextEdit ==
  \E e \in Edits :
    \/ \E user \in Users \cup {NoUser},
          id \in {StoredTurn(1).id, OtherProjectTurn.id, <<"none", "-user">>},
          content \in EditContents, role \in {NoRole, "user", "assistant"} :
         PATCH(e, user, id, content, role)
    \/ update(e)

SpecEdit == InitEdit /\ [][NextEdit]_vars

\* ------------------------------------------------------- controller properties
\* the increments of a model stream: the chunks that carry text
Increments(chunks) == SelectSeq(chunks, LAMBDA c : c # <<>>)

IsPrefix(a, b) == Len(a) <= Len(b) /\ SubSeq(b, 1, Len(a)) = a

Emitted(r, t) == CountType(events[r], t) > 0

\* sources, text*, done
SuccessShape(evs) ==
  /\ Len(evs) >= 2
  /\ evs[1].type = "sources"
  /\ evs[Len(evs)].type = "done"
  /\ \A i \in 2..(Len(evs) - 1) : evs[i].type = "text"

\* C1: a stream in which done was emitted is exactly one sources event, then
\* only text events, then exactly one done event, which is the last event.
C1_SuccessfulStreamOrder ==
  \A r \in AllReqs : Emitted(r, "done") => SuccessShape(events[r])

C1_Witness ==
  \E r \in AllReqs : /\ Emitted(r, "done")
                  /\ CountType(events[r], "text") = 2
                  /\ stage[r] = "closed"

\* C2: a stream that was opened and not cancelled carries at most one terminal
\* event (done or error); once it is there it is the last event and the
\* transport is closed, the transport is closed only after it, and the
\* handler ends only with the transport closed.
C2_OneTerminalEvent ==
  \A r \in AllReqs :
    (httpStatus[r] = 200 /\ ~cancelled[r]) =>
      LET evs == events[r]
          term == {i \in 1..Len(evs) : IsTerminal(evs[i])}
      IN  /\ Cardinality(term) <= 1
          /\ term # {} => (term = {Len(evs)} /\ closed[r])
          /\ closed[r] => term # {}
          /\ stage[r] # "aborted"
          /\ stage[r] = "closed" <=> closed[r]

C2_Witness ==
  \E r \in AllReqs : /\ ~cancelled[r]
                  /\ stage[r] = "closed"
                  /\ Types(events[r]) = <<"sources", "text", "error">>

\* C3: the text events are the increments the model delivered, one event per
\* increment with that increment as payload, in delivery order (all of them
\* while the client is there, a prefix of them once the stream is cancelled);
\* and the assistant row a request inserted holds the concatenation of the
\* text payloads it emitted.
C3_TextEventsAreIncrements ==
  \A r \in AllReqs :
    /\ IsPrefix(TextPayloads(events[r]), Increments(delivered[r]))
    /\ ~cancelled[r] => TextPayloads(events[r]) = Increments(delivered[r])
    /\ wrote[r] =>
         \E row \in db : /\ row.id = <<request[r].sessionId, "-assistant">>
                         /\ row.role = "assistant"
                         /\ row.content = Flatten(TextPayloads(events[r]))

C3_Witness ==
  \E r \in AllReqs : /\ wrote[r]
                  /\ Emitted(r, "done")
                  /\ Len(delivered[r]) = 2
                  /\ Len(TextPayloads(events[r])) = 2

\* C4 (as claimed): a request whose client aborted during the Streaming stage
\* never emits done and never inserts its turn pair.
C4_AbortNeverPersists ==
  \A r \in AllReqs :
    cancelStage[r] = "streaming" => (~Emitted(r, "done") /\ ~wrote[r])

\* C8: when createMany has returned, failed or not, and the client is there,
\* the stream is the sources event, the text events of the increments and one
\* done event, and it is closed: a failed write shows no error event.
C8_PersistFailureAbsorbed ==
  \A r \in AllReqs :
    (calls[r].db = 1 /\ stage[r] # "persisting" /\ ~cancelled[r]) =>
      /\ SuccessShape(events[r])
      /\ events[r][1].content = sources[r]
      /\ TextPayloads(events[r]) = Increments(delivered[r])
      /\ ~Emitted(r, "error")
      /\ CountType(events[r], "done") = 1
      /\ closed[r]

C8_Witness ==
  \E r \in AllReqs : /\ failure[r] = "db"
                  /\ ~wrote[r]
                  /\ ~cancelled[r]
                  /\ stage[r] = "closed"
                  /\ CountType(events[r], "text") >= 1

\* the vector store is misconfigured (a key is missing) or its call failed
RetrievalUnavailable(r) ==
  httpStatus[r] = 200 /\ (~env.openai \/ ~env.pinecone \/ failure[r] = "retrieval")

\* C9: when retrieval is unavailable the model is never called and nothing is
\* written, no sources, text or done event is emitted, and with the client
\* there the stream is exactly one error event.
C9_RetrievalUnavailableIsFatal ==
  \A r \in AllReqs :
    RetrievalUnavailable(r) =>
      /\ calls[r].model = 0
      /\ calls[r].db = 0
      /\ ~wrote[r]
      /\ \A i \in 1..Len(events[r]) : events[r][i].type = "error"
      /\ ~cancelled[r] => Types(events[r]) = <<"error">>
      /\ ~cancelled[r] => closed[r]

C9_Witness ==
  \E r \in AllReqs : failure[r] = "retrieval" /\ ~cancelled[r] /\ stage[r] = "closed"

\* C10: when the model stream fails after it delivered increments, and the
\* client is there, the stream is the sources event, one text event for every
\* increment delivered before the failure, then one error event; no done
\* event is emitted, createMany is not called and no row is inserted.
C10_MidStreamFailure ==
  \A r \in AllReqs :
    failure[r] = "stream" =>
      /\ ~Emitted(r, "done")
      /\ calls[r].db = 0
      /\ ~wrote[r]
      /\ ~cancelled[r] =>
           /\ TextPayloads(events[r]) = Increments(delivered[r])
           /\ Types(events[r]) =
                <<"sources">> \o [i \in 1..Len(Increments(delivered[r])) |-> "text"]
                              \o <<"error">>

C10_Witness ==
  \E r \in AllReqs : /\ failure[r] = "stream"
                  /\ ~cancelled[r]
                  /\ Len(Increments(delivered[r])) = 2
                  /\ stage[r] = "closed"

\* ----------------------------------------------------------- hook properties
\* the assistant turns call r appended to the message list
AssistantTurns(r) ==
  SelectSeq(state.messages, LAMBDA m : m.role = "assistant" /\ m.req = r)

\* the chunks of a stream as the hook's JSON.parse returns them
Emissions(r) ==
  [i \in 1..Len(events[r]) |->
     [type |-> events[r][i].type, content |-> ContentTokens(events[r][i])]]

\* C5 (as claimed): when the catch and finally of an aborted call run while a
\* call issued after the abort is in flight, they leave the abort handle, the
\* loading flag, the streaming text, the error and the message list as the
\* fresh call has them.
C5_FreshRequestUnaffected ==
  [][\A a \in Sends, f \in Sends :
       ( /\ a < f
         /\ aborted[a]
         /\ exit[a] = "none"
         /\ exit'[a] = "abort"
         /\ cpc[f] \in {"fetching", "reading"}
         /\ ~aborted[f] ) =>
       ( /\ abortControllerRef' = abortControllerRef
         /\ state'.isLoading = state.isLoading
         /\ state'.streamingContent = state.streamingContent
         /\ state'.error = state.error
         /\ state'.messages = state.messages )]_vars

\* C6: a call releases its reader at most once; while it reads it holds the
\* reader unreleased; once it has returned, by a done event, an error event,
\* the end of the stream, an abort or a failed read, it has released the
\* reader it took exactly once.
C6_ReaderReleasedOnce ==
  \A r \in AllReqs :
    /\ readers[r] <= 1
    /\ releases[r] <= readers[r]
    /\ cpc[r] = "reading" => (readers[r] = 1 /\ releases[r] = 0)
    /\ cpc[r] = "returned" => releases[r] = readers[r]
    /\ exit[r] \in {"done", "error", "exhausted"} => readers[r] = 1

C6_Witness ==
  \E r \in AllReqs : /\ exit[r] = "done"
                     /\ readers[r] = 1
                     /\ releases[r] = 1
                     /\ readerReleased[r]

\* the other exit paths of a call that took a reader
C6_ExitError == \E r \in AllReqs : exit[r] = "error" /\ readers[r] = 1 /\ releases[r] = 1

C6_ExitExhausted ==
  \E r \in AllReqs : exit[r] = "exhausted" /\ readers[r] = 1 /\ releases[r] = 1

C6_ExitAbort == \E r \in AllReqs : exit[r] = "abort" /\ readers[r] = 1 /\ releases[r] = 1

\* C7 (as claimed): however the stream is cut into reads, the chunks the
\* switch has dispatched are the chunks the handler emitted, in order and
\* without a gap; a call that returned by done, by error or at the end of the
\* stream has dispatched all of them; and the assistant turn appended on done
\* holds the concatenation of the emitted text payloads.
C7_EveryEventDispatchedOnce ==
  \A r \in AllReqs :
    /\ IsPrefix(dispatched[r], Emissions(r))
    /\ exit[r] \in {"done", "error", "exhausted"} => dispatched[r] = Emissions(r)
    /\ exit[r] = "done" =>
         /\ Len(AssistantTurns(r)) = 1
         /\ AssistantTurns(r)[1].content = Flatten(TextPayloads(events[r]))

\* ------------------------------------------------------ validation properties
\* the handler made no retrieval, model or persistence call for request r and
\* opened no stream
NothingStarted(r) ==
  /\ events[r] = <<>>
  /\ wire[r] = <<>>
  /\ ~closed[r]
  /\ calls[r] = [vector |-> 0, model |-> 0, db |-> 0]
  /\ ~wrote[r]

Authorized(r) ==
  request[r].user # NoUser /\ Owner(request[r].projectId) = request[r].user

\* C11 (as claimed): a call without a session is answered 401, a call on a
\* project of another user 403, and an authorized call whose body is empty,
\* is no JSON or has no message string 400; and a call answered with another
\* status than 200 opened no stream and made no retrieval, model or
\* persistence call.
C11_ValidationBeforeStream ==
  \A r \in AllReqs :
    stage[r] # "idle" =>
      /\ request[r].user = NoUser => httpStatus[r] = 401
      /\ (request[r].user # NoUser /\ ~Authorized(r)) => httpStatus[r] = 403
      /\ (Authorized(r) /\ request[r].message \in {NotJSON, NoMessage, <<>>}) =>
           httpStatus[r] = 400
      /\ httpStatus[r] # 200 => (NothingStarted(r) /\ stage[r] = "rejected")

\* C11 without the body that is no JSON: the rest of the claim
C11_ButUnparsableBody ==
  \A r \in AllReqs :
    stage[r] # "idle" =>
      /\ request[r].user = NoUser => httpStatus[r] = 401
      /\ (request[r].user # NoUser /\ ~Authorized(r)) => httpStatus[r] = 403
      /\ (Authorized(r) /\ request[r].message \in {NoMessage, <<>>}) =>
           httpStatus[r] = 400
      /\ (Authorized(r) /\ request[r].message = NotJSON) => httpStatus[r] = 500
      /\ httpStatus[r] # 200 => (NothingStarted(r) /\ stage[r] = "rejected")

\* C12 (as claimed): an authorized call whose message is empty once trimmed
\* is answered 400 and opens no stream, as a call without a message is.
C12_BlankMessageRejected ==
  \A r \in AllReqs :
    ( /\ stage[r] # "idle"
      /\ Authorized(r)
      /\ request[r].message \notin {NotJSON, NoMessage}
      /\ trim(request[r].message) = <<>> ) =>
    (httpStatus[r] = 400 /\ NothingStarted(r))

\* ------------------------------------------------------- retrieval properties
\* the search of request r has resolved
Retrieved(r) == calls[r].vector = 1 /\ failure[r] # "retrieval"

\* the positions of the candidates of request r at or above the threshold
Kept(r) == {i \in 1..Len(scored[r]) : scored[r][i].score >= SIM_THRESHOLD}

\* the j-th of them
KeptAt(r, j) == CHOOSE i \in Kept(r) : Cardinality({k \in Kept(r) : k < i}) = j - 1

\* C13: the sources of a request are its candidates with a score at or above
\* the threshold, each once, in the order of the candidates, with the
\* candidate's passage as it was; and filtering again, or filtering the
\* filtered, gives the same.
C13_FilterKeepsAtOrAbove ==
  \A r \in AllReqs :
    Retrieved(r) =>
      /\ Len(sources[r]) = Cardinality(Kept(r))
      /\ \A j \in 1..Len(sources[r]) :
           /\ sources[r][j].pageContent = scored[r][KeptAt(r, j)].doc
           /\ filter(scored[r])[j] = scored[r][KeptAt(r, j)]
      /\ toSources(filter(scored[r])) = sources[r]
      /\ filter(filter(scored[r])) = filter(scored[r])

C13_Witness ==
  \E r \in AllReqs : /\ Retrieved(r)
                     /\ Len(scored[r]) = 2
                     /\ scored[r][1].score = SIM_THRESHOLD
                     /\ scored[r][2].score < SIM_THRESHOLD
                     /\ Len(sources[r]) = 1

\* every candidate of request r is below the threshold
AllBelow(r) ==
  Retrieved(r) /\ \A i \in 1..Len(scored[r]) : scored[r][i].score < SIM_THRESHOLD

\* C14: when the search resolved and every candidate is below the threshold,
\* the first event is a sources event with the empty array, no error event is
\* emitted for it, the model is called, and the prompt is the guideline, the
\* history and the new message without a context message.
C14_UngroundedRequestProceeds ==
  \A r \in AllReqs :
    (AllBelow(r) /\ ~cancelled[r]) =>
      /\ Len(events[r]) >= 1
      /\ events[r][1].type = "sources"
      /\ ContentTokens(events[r][1]) = <<"[", "]">>
      /\ calls[r].model = 1
      /\ failure[r] = "none" => ~Emitted(r, "error")
      /\ Len(messagesForLLM[r]) = Len(recentMessages[r]) + 2
      /\ messagesForLLM[r][1] = [role |-> "system", content |-> <<BaseSystem>>]
      /\ \A i \in 2..Len(messagesForLLM[r]) : messagesForLLM[r][i].role # "system"
      /\ messagesForLLM[r][Len(messagesForLLM[r])] =
           [role |-> "user", content |-> request[r].message]

C14_Witness ==
  \E r \in AllReqs : /\ AllBelow(r)
                     /\ Len(scored[r]) = 2
                     /\ Emitted(r, "done")
                     /\ stage[r] = "closed"

\* the passages named in the prompt of request r
PromptPassages(r) ==
  {d \in Documents :
     \E i \in 1..Len(messagesForLLM[r]) :
       \E k \in 1..Len(messagesForLLM[r][i].content) :
         messagesForLLM[r][i].content[k] = d}

\* C20: every document is indexed in the namespace of its own project, and
\* the candidates, the sources event and the prompt of a request hold only
\* passages of documents of the project the request is against.
C20_RetrievalStaysInProject ==
  /\ \A p \in Projects : \A d \in index[Namespace(p)] : DocProject(d) = p
  /\ \A r \in AllReqs :
       Retrieved(r) =>
         /\ \A i \in 1..Len(scored[r]) : DocProject(scored[r][i].doc) = request[r].projectId
         /\ \A i \in 1..Len(sources[r]) :
              DocProject(sources[r][i].pageContent) = request[r].projectId
         /\ \A i \in 1..Len(events[r]) :
              events[r][i].type = "sources" => events[r][i].content = sources[r]
         /\ \A d \in PromptPassages(r) : DocProject(d) = request[r].projectId

C20_Witness ==
  \E r \in AllReqs : /\ Retrieved(r)
                     /\ request[r].projectId = "A"
                     /\ "pB1" \in index[Namespace("B")]
                     /\ similarity["pB1"] > similarity["pA1"]
                     /\ Len(sources[r]) = 2
                     /\ PromptPassages(r) = {"pA1", "pA2"}

\* ---------------------------------------------------------- prompt properties
\* the context message for one or two sources, written out
ContextOf(srcs) ==
  IF Len(srcs) = 1
  THEN <<ContextHeader, "[", "1", "] ", srcs[1].pageContent>>
  ELSE <<ContextHeader, "[", "1", "] ", srcs[1].pageContent,
         Separator, "[", "2", "] ", srcs[2].pageContent>>

\* C15: the messages handed to the model are the guideline system message,
\* then a context system message exactly when there are sources, then the
\* history turns in their order with their roles, then the new user message
\* as the last element; and the model is called with them and not without.
C15_PromptOrder ==
  \A r \in AllReqs :
    /\ calls[r].model >= 1 <=> messagesForLLM[r] # <<>>
    /\ messagesForLLM[r] # <<>> =>
         LET P == messagesForLLM[r]
             h == recentMessages[r]
             c == IF sources[r] # <<>> THEN 1 ELSE 0
         IN  /\ Len(P) = 1 + c + Len(h) + 1
             /\ P[1] = [role |-> "system", content |-> <<BaseSystem>>]
             /\ c = 1 => P[2] = [role |-> "system", content |-> ContextOf(sources[r])]
             /\ Cardinality({i \in 1..Len(P) : P[i].role = "system"}) = 1 + c
             /\ \A i \in 1..Len(h) :
                  P[1 + c + i] = [role |-> h[i].role, content |-> h[i].content]
             /\ P[Len(P)] = [role |-> "user", content |-> request[r].message]

C15_Witness ==
  \E r \in AllReqs : /\ Len(messagesForLLM[r]) = HistoryLimit + 3
                     /\ Len(sources[r]) = 2
                     /\ Len(recentMessages[r]) = HistoryLimit
                     /\ calls[r].model = 1

\* the rows of a project
RowsOf(projectId) == {row \in db : row.projectId = projectId}

\* h is the most recent min(6, n) of the rows in S, oldest first
RecentHistory(h, S) ==
  /\ Len(h) = IF Cardinality(S) < 6 THEN Cardinality(S) ELSE 6
  /\ \A i \in 1..Len(h) : h[i] \in S
  /\ \A i, j \in 1..Len(h) : i # j => h[i] # h[j]
  /\ \A i, j \in 1..Len(h) : i < j => h[i].createdAt <= h[j].createdAt
  /\ \A row \in S : (\A i \in 1..Len(h) : h[i] # row) =>
       \A i \in 1..Len(h) : row.createdAt <= h[i].createdAt

\* C16: the history an accepted request takes is the most recent min(6, n) of
\* the n rows its project holds just then, oldest first, each row as it is
\* stored; and the prompt built from it holds these turns in that order with
\* their roles and contents.
C16_HistoryIsRecentSix ==
  [][\A r \in AllReqs :
       /\ (stage[r] = "idle" /\ httpStatus'[r] = 200) =>
            RecentHistory(recentMessages'[r], RowsOf(request'[r].projectId))
       /\ (messagesForLLM[r] = <<>> /\ messagesForLLM'[r] # <<>>) =>
            LET P == messagesForLLM'[r]
                h == recentMessages[r]
            IN  /\ Len(P) >= Len(h) + 2
                /\ \A i \in 1..Len(h) :
                     LET m == P[Len(P) - 1 - Len(h) + i]
                     IN  m.role = h[i].role /\ m.content = h[i].content]_vars

C16_Witness ==
  \E r \in AllReqs : /\ Len(recentMessages[r]) = 6
                     /\ Cardinality(RowsOf("A")) = 7
                     /\ messagesForLLM[r] # <<>>
                     /\ request[r].projectId = "A"
                     /\ ~wrote[r]

\* C17 (as claimed): no row that was soft-deleted when the request was
\* accepted is in the history of the request.
C17_DeletedTurnsLeftOut ==
  \A r \in AllReqs :
    \A i \in 1..Len(recentMessages[r]) : ~recentMessages[r][i].isDeleted

\* the ids of the rows of request r
PairIds(r) ==
  {<<request[r].sessionId, "-user">>, <<request[r].sessionId, "-assistant">>}

\* C18: a step of the handler changes the message rows only when its
\* createMany succeeds, and then it adds exactly the user row and the
\* assistant row of the request, with the message and the full response, and
\* leaves every row there was as it was.
C18_TurnPairAllOrNothing ==
  [][\A r \in AllReqs :
       /\ (stage[r] # stage'[r] /\ wrote'[r] = wrote[r]) => db' = db
       /\ (~wrote[r] /\ wrote'[r]) =>
            /\ db \subseteq db'
            /\ Cardinality(db' \ db) = 2
            /\ {row.id : row \in db' \ db} = PairIds(r)
            /\ \A row \in db' \ db :
                 /\ row.projectId = request[r].projectId
                 /\ row.role = "user" =>
                      (row.id = <<request[r].sessionId, "-user">>
                         /\ row.content = request[r].message)
                 /\ row.role = "assistant" =>
                      (row.id = <<request[r].sessionId, "-assistant">>
                         /\ row.content = fullResponse[r])
            /\ {row.role : row \in db' \ db} = {"user", "assistant"}]_vars

C18_Witness ==
  \E r \in AllReqs : /\ wrote[r]
                     /\ Cardinality(RowsOf("A")) = MaxStored + 2
                     /\ \E row \in db : row.isDeleted
                     /\ stage[r] = "closed"

\* C19 (as claimed): the assistant row a request inserted holds, in its
\* metadata, the sources of the request's sources event.
C19_AssistantMetadataHasSources ==
  \A r \in AllReqs :
    wrote[r] =>
      \E row \in db : /\ row.id = <<request[r].sessionId, "-assistant">>
                      /\ row.metadata # NoMetadata
                      /\ row.metadata.sources = sources[r]

\* ------------------------------------------------- terminal event properties
\* the sources of the last sources chunk among the dispatched ones
SourcesSeen(seen) ==
  LET s == SelectSeq(seen, LAMBDA e : e.type = "sources")
  IN  IF s = <<>> THEN <<>> ELSE JSONparseSources(s[Len(s)].content).value

\* call r dispatches a chunk of type t in this step, as its last one
Dispatches(r, t) ==
  /\ Len(dispatched'[r]) > Len(dispatched[r])
  /\ dispatched'[r][Len(dispatched'[r])].type = t

\* C21: the step in which a call dispatches the done event appends exactly one
\* turn to the message list, an assistant turn whose content is the
\* concatenation of the text events that call dispatched and whose sources are
\* those of its sources event, and the same step leaves the streaming text
\* empty, the sources empty and the loading flag cleared.
C21_DoneAppendsOneTurn ==
  [][\A r \in AllReqs :
       Dispatches(r, "done") =>
         /\ exit'[r] = "done"
         /\ Len(state'.messages) = Len(state.messages) + 1
         /\ SubSeq(state'.messages, 1, Len(state.messages)) = state.messages
         /\ LET turn == state'.messages[Len(state'.messages)]
            IN  /\ turn.role = "assistant"
                /\ turn.req = r
                /\ turn.content = Flatten(TextPayloads(dispatched'[r]))
                /\ turn.sources = SourcesSeen(dispatched'[r])
                /\ turn.sources = currentSources'[r]
         /\ state'.streamingContent = <<>>
         /\ state'.sources = <<>>
         /\ ~state'.isLoading]_vars

C21_Witness ==
  \E r \in AllReqs :
    /\ exit[r] = "done"
    /\ Len(AssistantTurns(r)) = 1
    /\ Len(AssistantTurns(r)[1].content) = 2
    /\ AssistantTurns(r)[1].sources # <<>>
    /\ CountType(dispatched[r], "text") = 2
    /\ state.sources = <<>>
    /\ ~state.isLoading

\* C22: the step in which a call dispatches an error event sets the error to
\* the event's content, clears the loading flag and the streaming text, leaves
\* the message list as it was and returns; a call that returned by an error
\* event dispatches nothing more, its last dispatched chunk is that event, and
\* it has appended no assistant turn.
C22_ErrorEventEndsCall ==
  [][\A r \in AllReqs :
       /\ Dispatches(r, "error") =>
            /\ exit'[r] = "error"
            /\ cpc'[r] = "returned"
            /\ state'.error = dispatched'[r][Len(dispatched'[r])].content
            /\ state'.error # NoError
            /\ ~state'.isLoading
            /\ state'.streamingContent = <<>>
            /\ state'.messages = state.messages
       /\ exit[r] = "error" =>
            /\ exit'[r] = "error"
            /\ dispatched'[r] = dispatched[r]
            /\ dispatched[r][Len(dispatched[r])].type = "error"
            /\ CountType(dispatched[r], "error") = 1
            /\ SelectSeq(state'.messages,
                         LAMBDA m : m.role = "assistant" /\ m.req = r) = <<>>]_vars

\* an error event after text was streamed
C22_Witness ==
  \E r \in AllReqs :
    /\ exit[r] = "error"
    /\ CountType(dispatched[r], "text") > 0
    /\ state.error = <<ErrProcessing>>
    /\ state.streamingContent = <<>>
    /\ ~state.isLoading
    /\ AssistantTurns(r) = <<>>

\* C23: stopStreaming on a call in flight clears the loading flag, the
\* streaming text and the error; from then on the call dispatches no chunk and
\* appends no turn; and when its catch has run the loading flag is cleared,
\* the streaming text is empty, the error is not set and the message list
\* holds no assistant turn of that call.
C23_AbortEndsQuietly ==
  [][\A r \in {1} :
       /\ (~aborted[r] /\ aborted'[r]) =>
            /\ ~state'.isLoading
            /\ state'.streamingContent = <<>>
            /\ state'.error = NoError
            /\ state'.messages = state.messages
       /\ aborted[r] =>
            /\ dispatched'[r] = dispatched[r]
            /\ Len(state'.messages) <= Len(state.messages)
            /\ exit'[r] \in {"none", "abort"}
       /\ exit'[r] = "abort" =>
            /\ ~state'.isLoading
            /\ state'.streamingContent = <<>>
            /\ state'.error = NoError
            /\ SelectSeq(state'.messages,
                         LAMBDA m : m.role = "assistant" /\ m.req = r) = <<>>]_vars

\* an abort after the sources event and before any text
C23_Witness ==
  \E r \in {1} :
    /\ exit[r] = "abort"
    /\ Types(dispatched[r]) = <<"sources">>
    /\ Types(events[r]) = <<"sources">>
    /\ ~state.isLoading
    /\ state.error = NoError

\* an abort while text is streaming
C23_AbortMidText ==
  \E r \in {1} :
    /\ exit[r] = "abort"
    /\ CountType(dispatched[r], "text") = 1
    /\ state.streamingContent = <<>>

\* ------------------------------------------------------------ retry properties
\* the position of the last user turn of a message list, 0 when it has none
LastUserAt(messages) ==
  LET U == {i \in 1..Len(messages) : messages[i].role = "user"}
  IN  IF U = {} THEN 0 ELSE CHOOSE i \in U : \A j \in U : j <= i

\* the caller's callbacks are those of the latest state
Rendered == closureLoading = state.isLoading /\ closureMessages = state.messages

C24_AfterError ==
  /\ exit[1] = "error"
  /\ cpc[2] # "idle"
  /\ Len(state.messages) = 2
  /\ state.messages[1].req = 1
  /\ state.messages[2].req = 2
  /\ state.messages[2].content = state.messages[1].content

\* a retry of the last turn of the earlier exchange: no call of sendMessage
\* made by the caller has this content
C24_RetryPrior ==
  /\ cpc[1] # "idle"
  /\ sent[1].message = <<"p">>
  /\ sent[1].images = <<"i0">>
  /\ Len(state.messages) = 2
  /\ state.messages[2].req = 1

\* C28 (as claimed): at most one call is in flight, between its fetch and its
\* return, at any time; a sendMessage or retryLastMessage call made while
\* another call is in flight starts no request.
C28_OneRequestInFlight ==
  Cardinality({r \in AllReqs : cpc[r] \in {"fetching", "reading"}}) <= 1

\* ------------------------------------------------------ invocation properties
\* C25: a request makes at most one vector query, one model call and one
\* write; once one of them has failed it makes no further call; a call of the
\* hook starts only in a sendMessage or retryLastMessage step, also after
\* another call ended with an error, and its fetch reaches the handler at most
\* once.
C25_EachCallAtMostOnce ==
  [][\A r \in {1, 2} :
       /\ calls'[r].vector <= 1
       /\ calls'[r].model <= 1
       /\ calls'[r].db <= 1
       /\ failure[r] # "none" => calls'[r] = calls[r]
       /\ (cpc[r] = "idle" /\ cpc'[r] # "idle") =>
            \/ \E c \in HookContents : sendMessage(r, c, <<"i1">>)
            \/ retryLastMessage(r)
       /\ (stage[r] = "idle" /\ stage'[r] # "idle") => cpc[r] = "fetching"
       /\ stage[r] # "idle" => request'[r] = request[r]
       /\ cpc[r] = "returned" => cpc'[r] = "returned"]_vars

\* a request whose write failed after one call of each kind, and whose call
\* was followed by a second one
C25_Witness ==
  /\ calls[1] = [vector |-> 1, model |-> 1, db |-> 1]
  /\ ~wrote[1]
  /\ stage[1] = "closed"
  /\ cpc[2] # "idle"

\* a second call after the first ended with an error event
C25_AfterError ==
  /\ exit[1] = "error"
  /\ failure[1] = "stream"
  /\ calls[1] = [vector |-> 1, model |-> 1, db |-> 0]
  /\ stage[2] = "closed"

\* ------------------------------------------------------------ stage properties
\* where a request is in the order validating, retrieving (with filtering and
\* composing, which no await separates from it), model call, streaming,
\* persisting, terminated
StageRank(st) ==
  IF st = "idle" THEN 0
  ELSE IF st = "retrieving" THEN 1
  ELSE IF st = "invoking" THEN 2
  ELSE IF st = "streaming" THEN 3
  ELSE IF st = "persisting" THEN 4
  ELSE 5

Terminated(r) == stage[r] \in {"rejected", "closed", "aborted"}

\* C26: a request never moves back in the order of its stages; the model is
\* called only in the step in which retrieval succeeded and the sources event
\* was emitted; the write is attempted only when the model stream has ended
\* without a failure; done is emitted only by a request whose write has
\* returned, and ends it; a terminated request changes no more.
C26_StagesInOrder ==
  [][\A r \in Reqs :
       /\ StageRank(stage'[r]) >= StageRank(stage[r])
       /\ calls'[r].model > calls[r].model =>
            /\ stage[r] = "retrieving"
            /\ calls'[r].vector = 1
            /\ failure'[r] = "none"
            /\ events'[r] # <<>>
            /\ events'[r][Len(events'[r])].type = "sources"
       /\ calls'[r].db > calls[r].db =>
            /\ stage[r] = "streaming"
            /\ stage'[r] = "persisting"
            /\ calls[r].model = 1
            /\ failure'[r] = "none"
       /\ CountType(events'[r], "done") > CountType(events[r], "done") =>
            /\ stage[r] = "persisting"
            /\ calls[r].db = 1
            /\ stage'[r] = "closed"
       /\ stage[r] \in {"rejected", "closed", "aborted"} =>
            /\ stage'[r] = stage[r]
            /\ events'[r] = events[r]
            /\ calls'[r] = calls[r]
            /\ wrote'[r] = wrote[r]
            /\ closed'[r] = closed[r]]_vars

\* a request that has passed every stage
C26_Witness ==
  \E r \in Reqs :
    /\ Terminated(r)
    /\ calls[r] = [vector |-> 1, model |-> 1, db |-> 1]
    /\ Types(events[r]) = <<"sources", "text", "text", "done">>
    /\ failure[r] = "none"

\* ---------------------------------------------------------- session properties
\* the stored rows whose id is built from session identifier sid
RowsOfSession(rows, sid) == {row \in rows : row.id[1] = sid}

\* C29: for every session identifier the stored rows are none or the two rows
\* of one request, and at most one request that carried it has written; no
\* stored row is ever changed or removed; a request that reaches its write
\* when rows of its identifier are stored writes nothing and, unless its
\* client is gone, ends its stream with done and without an error event.
C29_OnePairPerSession ==
  [][/\ \A sid \in SessionIds :
          /\ Cardinality(RowsOfSession(db', sid)) \in {0, 2}
          /\ Cardinality({r \in {1, 2} : wrote'[r] /\ request'[r].sessionId = sid}) <= 1
          /\ RowsOfSession(db', sid) # {} =>
               \E r \in {1, 2} :
                 /\ wrote'[r]
                 /\ request'[r].sessionId = sid
                 /\ \A row \in RowsOfSession(db', sid) :
                      /\ row.projectId = request'[r].projectId
                      /\ row.role = "assistant" => row.content = fullResponse'[r]
     /\ db \subseteq db'
     /\ \A r \in {1, 2} :
          ( /\ stage[r] = "persisting"
            /\ stage'[r] # "persisting"
            /\ RowsOfSession(db, request[r].sessionId) # {} ) =>
          /\ db' = db
          /\ ~wrote'[r]
          /\ ~cancelled[r] =>
               /\ events'[r][Len(events'[r])].type = "done"
               /\ CountType(events'[r], "error") = 0]_vars

\* two completed exchanges with one identifier: one wrote, the other ended
\* with done and wrote nothing
C29_Witness ==
  \E a \in {1, 2}, b \in {1, 2} :
    /\ a # b
    /\ request[a] # <<>> /\ request[b] # <<>>
    /\ request[a].sessionId = request[b].sessionId
    /\ wrote[a]
    /\ ~wrote[b]
    /\ stage[b] = "closed"
    /\ Types(events[b]) = <<"sources", "text", "done">>
    /\ fullResponse[a] # fullResponse[b]
    /\ Cardinality(db) = 2

\* two requests with one identifier at their write at the same time
C29_Concurrent ==
  /\ stage[1] = "persisting"
  /\ stage[2] = "persisting"
  /\ request[1].sessionId = request[2].sessionId

\* ----------------------------------------------------------- loading properties
\* C27 (as claimed): a sendMessage call that has returned, by whichever exit,
\* has left the loading flag cleared.
C27_LoadingClearedOnReturn ==
  \A r \in {1} : cpc[r] = "returned" => ~state.isLoading

\* -------------------------------------------------------------- edit properties
\* the PATCH calls on the row with this id that were answered with 200
Edited(id) == {e \in Edits : edit[e].status = 200 /\ edit[e].id = id}

\* C30 (as claimed): every stored row's edit history has one entry for each
\* successful edit of the row, overlapping edits included.
C30_HistoryHoldsEveryEdit ==
  \A row \in db : Len(row.editHistory) = Cardinality(Edited(row.id))

\* an edit that writes the row as it read it appends the row's content to the
\* history and replaces the content; no edit changes a row's id, project or
\* role
C30_EditInTurn ==
  [][\A e \in Edits :
       (edit[e].pc = "updating" /\ edit'[e].pc = "done") =>
         \E row \in db, new \in db' :
           /\ row.id = edit[e].id
           /\ new.id = row.id
           /\ db' = (db \ {row}) \cup {new}
           /\ new.role = row.role
           /\ new.projectId = row.projectId
           /\ new.content = edit[e].content
           /\ edit[e].currentMessage = <<row>> =>
                new.editHistory = row.editHistory \o <<[content |-> row.content]>>]_vars

\* two edits of one row, one after the other
C30_TwoEditsInTurn ==
  \E row \in db :
    /\ Cardinality(Edited(row.id)) = 2
    /\ Len(row.editHistory) = 2
    /\ row.editHistory[1].content = <<"1">>

====
